---- MODULE Spec2Model ----
(***************************************************************************)
(* Model of src/turing_machine.py: the Tape, the TransitionFunction and    *)
(* the TuringMachine interpreter (reset / step / run / get_result), and    *)
(* the built-in machine of create_balanced_01_machine.                     *)
(*                                                                         *)
(* Strings are sequences of one-character strings.  Python's None is the   *)
(* record None; an optional object is either None or a record of its       *)
(* fields.  A handler that raises leaves every assignment made before the  *)
(* raise in place, exactly as the interpreter does.                        *)
(***************************************************************************)
EXTENDS Integers, Sequences, FiniteSets, TLC

VARIABLES transitions, tm, run_input, last

vars == <<transitions, tm, run_input, last>>

(***************************************************************************)
(* Bounds of the model.                                                    *)
(***************************************************************************)
\* longest input string over InputChars handed to reset/run
MaxLen == 2
\* step() is not called for progress once step_count has reached MaxSteps
MaxSteps == 3
\* largest explicit max_steps handed to run
MaxBudget == 2

(***************************************************************************)
(* Program constants.                                                      *)
(***************************************************************************)
\* run(..., max_steps=10000, ...)
DefaultMaxSteps == 10000
\* get_tape_string(self, context=10)
DefaultContext == 10

None == [none |-> TRUE]

Min(a, b) == IF a < b THEN a ELSE b

Max(a, b) == IF a > b THEN a ELSE b

(***************************************************************************)
(* class Tape                                                              *)
(***************************************************************************)
\* a constructor that starts rightmost at 0 whatever the input
TapeInitRightmostZero(input_string, blank_symbol) ==
  [blank_symbol  |-> blank_symbol,
   tape          |-> [i \in 0..(Len(input_string) - 1) |-> input_string[i + 1]],
   head_position |-> 0,
   leftmost      |-> 0,
   rightmost     |-> 0]

\* Tape.__init__: the cells of the input from position 0, head and bounds
TapeInit(input_string, blank_symbol) ==
  [blank_symbol  |-> blank_symbol,
   tape          |-> [i \in 0..(Len(input_string) - 1) |-> input_string[i + 1]],
   head_position |-> 0,
   leftmost      |-> 0,
   rightmost     |-> IF input_string # <<>> THEN Len(input_string) - 1 ELSE 0]

\* the defaultdict lookup self.tape[i]: blank for a position never written
Cell(t, i) == IF i \in DOMAIN t.tape THEN t.tape[i] ELSE t.blank_symbol

\* Tape.read
TapeRead(t) == Cell(t, t.head_position)

\* Tape.write
TapeWrite(t, symbol) ==
  [t EXCEPT !.tape      = [i \in (DOMAIN t.tape) \cup {t.head_position} |->
                             IF i = t.head_position THEN symbol ELSE t.tape[i]],
            !.leftmost  = Min(t.leftmost, t.head_position),
            !.rightmost = Max(t.rightmost, t.head_position)]

\* move that leaves the bounds alone
TapeMoveKeepsBounds(t, direction) ==
  [t EXCEPT !.head_position =
     IF direction = "L" THEN t.head_position - 1 ELSE t.head_position + 1]

\* move with the two directions swapped
TapeMoveSwapped(t, direction) ==
  LET h == IF direction = "L" THEN t.head_position + 1 ELSE t.head_position - 1
  IN  [t EXCEPT !.head_position = h,
                !.leftmost      = Min(t.leftmost, h),
                !.rightmost     = Max(t.rightmost, h)]

\* Tape.move, for a direction that does not raise
TapeMove(t, direction) ==
  LET h == IF direction = "L" THEN t.head_position - 1 ELSE t.head_position + 1
  IN  [t EXCEPT !.head_position = h,
                !.leftmost      = Min(t.leftmost, h),
                !.rightmost     = Max(t.rightmost, h)]

\* Tape.get_tape_string: the two lines of the rendering, as the symbols of
\* the window and the number of spaces in front of the head marker
GetTapeString(t, context) ==
  LET start == Min(t.leftmost, t.head_position - context)
      end   == Max(t.rightmost, t.head_position + context)
  IN  [tape_content   |-> [i \in 1..(end - start + 1) |-> Cell(t, start + i - 1)],
       head_indicator |-> t.head_position - start]

(***************************************************************************)
(* class TransitionFunction                                                *)
(***************************************************************************)
\* TransitionFunction.__init__
EmptyTransitions == [k \in {} |-> <<>>]

\* the assignment of add_transition, once the direction has been accepted
PutTransition(table, current_state, read_symbol, next_state, write_symbol, direction) ==
  [k \in (DOMAIN table) \cup {<<current_state, read_symbol>>} |->
     IF k = <<current_state, read_symbol>>
     THEN <<next_state, write_symbol, direction>>
     ELSE table[k]]

\* TransitionFunction.get_transition: the entry, or None
GetTransition(table, state, symbol) ==
  IF <<state, symbol>> \in DOMAIN table THEN table[<<state, symbol>>] ELSE None

(***************************************************************************)
(* class TuringMachine                                                     *)
(***************************************************************************)
\* the checks of __init__ without the one on the blank symbol
ValidDefinitionNoBlankCheck(d) ==
  /\ d.initial_state \in d.states
  /\ d.accept_states \subseteq d.states
  /\ d.input_alphabet \subseteq d.tape_alphabet

\* the four checks of TuringMachine.__init__
ValidDefinition(d) ==
  /\ d.initial_state \in d.states
  /\ d.accept_states \subseteq d.states
  /\ d.input_alphabet \subseteq d.tape_alphabet
  /\ d.blank_symbol \in d.tape_alphabet

\* TuringMachine.__init__ after the checks
NewMachine(d) ==
  [states            |-> d.states,
   input_alphabet    |-> d.input_alphabet,
   tape_alphabet     |-> d.tape_alphabet,
   initial_state     |-> d.initial_state,
   blank_symbol      |-> d.blank_symbol,
   accept_states     |-> d.accept_states,
   current_state     |-> d.initial_state,
   tape              |-> None,
   step_count        |-> 0,
   execution_history |-> <<>>]

\* the check of reset: every symbol of the input is in the input alphabet
ValidInput(m, input_string) ==
  \A i \in 1..Len(input_string) : input_string[i] \in m.input_alphabet

\* a save that keeps only the latest configuration
SaveConfigurationOverwrites(m) ==
  IF m.tape # None
  THEN [m EXCEPT !.execution_history =
          << <<m.current_state, m.tape.head_position,
               GetTapeString(m.tape, DefaultContext)>> >>]
  ELSE m

\* TuringMachine._save_configuration
SaveConfiguration(m) ==
  IF m.tape # None
  THEN [m EXCEPT !.execution_history =
          Append(@, <<m.current_state, m.tape.head_position,
                      GetTapeString(m.tape, DefaultContext)>>)]
  ELSE m

\* reset that appends to the history of the previous run
FreshRunKeepsHistory(m, input_string) ==
  SaveConfiguration(
    [m EXCEPT !.tape          = TapeInit(input_string, m.blank_symbol),
              !.current_state = m.initial_state,
              !.step_count    = 0])

\* reset that forgets to zero the step counter
FreshRunKeepsStepCount(m, input_string) ==
  SaveConfiguration(
    [m EXCEPT !.tape              = TapeInit(input_string, m.blank_symbol),
              !.current_state     = m.initial_state,
              !.execution_history = <<>>])

\* the assignments of reset once the input has passed the alphabet check:
\* a fresh tape, the initial state, no steps, a history of one entry
FreshRun(m, input_string) ==
  SaveConfiguration(
    [m EXCEPT !.tape              = TapeInit(input_string, m.blank_symbol),
              !.current_state     = m.initial_state,
              !.step_count        = 0,
              !.execution_history = <<>>])

\* reset that clears the run state before it checks the input
ResetMachineClearsFirst(m, input_string) ==
  IF ValidInput(m, input_string)
  THEN [tm |-> FreshRun(m, input_string), outcome |-> "ok"]
  ELSE [tm |-> [m EXCEPT !.current_state     = m.initial_state,
                         !.step_count        = 0,
                         !.execution_history = <<>>],
        outcome |-> "ValueError"]

\* TuringMachine.reset: the machine after the call, and "ok" or the
\* exception raised
ResetMachine(m, input_string) ==
  IF ValidInput(m, input_string)
  THEN [tm |-> FreshRun(m, input_string), outcome |-> "ok"]
  ELSE [tm |-> m, outcome |-> "ValueError"]

\* step that moves the head before it writes
StepMachineMoveThenWrite(table, m) ==
  IF m.tape = None
  THEN [tm |-> m, outcome |-> "RuntimeError"]
  ELSE IF m.current_state \in m.accept_states
  THEN [tm |-> m, outcome |-> "halt"]
  ELSE LET transition == GetTransition(table, m.current_state, TapeRead(m.tape))
       IN  IF transition = None
           THEN [tm |-> m, outcome |-> "halt"]
           ELSE [tm |-> SaveConfiguration(
                          [m EXCEPT !.tape = TapeWrite(TapeMove(m.tape, transition[3]),
                                                       transition[2]),
                                    !.current_state = transition[1],
                                    !.step_count    = @ + 1]),
                 outcome |-> "progress"]

\* step that tests for acceptance before it tests for a tape
StepMachineAcceptFirst(table, m) ==
  IF m.current_state \in m.accept_states
  THEN [tm |-> m, outcome |-> "halt"]
  ELSE IF m.tape = None
  THEN [tm |-> m, outcome |-> "RuntimeError"]
  ELSE LET transition == GetTransition(table, m.current_state, TapeRead(m.tape))
       IN  IF transition = None
           THEN [tm |-> m, outcome |-> "halt"]
           ELSE [tm |-> SaveConfiguration(
                          [m EXCEPT !.tape = TapeMove(TapeWrite(m.tape, transition[2]),
                                                      transition[3]),
                                    !.current_state = transition[1],
                                    !.step_count    = @ + 1]),
                 outcome |-> "progress"]

\* step that looks the transition up before it tests for acceptance
StepMachineLookupFirst(table, m) ==
  IF m.tape = None
  THEN [tm |-> m, outcome |-> "RuntimeError"]
  ELSE LET transition == GetTransition(table, m.current_state, TapeRead(m.tape))
       IN  IF transition = None
           THEN [tm |-> m, outcome |-> "halt"]
           ELSE [tm |-> SaveConfiguration(
                          [m EXCEPT !.tape = TapeMove(TapeWrite(m.tape, transition[2]),
                                                      transition[3]),
                                    !.current_state = transition[1],
                                    !.step_count    = @ + 1]),
                 outcome |-> "progress"]

\* step that moves to a reject state when no transition applies
StepMachineRejectState(table, m) ==
  IF m.tape = None
  THEN [tm |-> m, outcome |-> "RuntimeError"]
  ELSE IF m.current_state \in m.accept_states
  THEN [tm |-> m, outcome |-> "halt"]
  ELSE LET transition == GetTransition(table, m.current_state, TapeRead(m.tape))
       IN  IF transition = None
           THEN [tm |-> [m EXCEPT !.current_state = "q_reject"], outcome |-> "halt"]
           ELSE [tm |-> SaveConfiguration(
                          [m EXCEPT !.tape = TapeMove(TapeWrite(m.tape, transition[2]),
                                                      transition[3]),
                                    !.current_state = transition[1],
                                    !.step_count    = @ + 1]),
                 outcome |-> "progress"]

\* TuringMachine.step: the machine after the call and what the call did:
\* "progress" (True), "halt" (False), or the exception raised
StepMachine(table, m) ==
  IF m.tape = None
  THEN [tm |-> m, outcome |-> "RuntimeError"]
  ELSE IF m.current_state \in m.accept_states
  THEN [tm |-> m, outcome |-> "halt"]
  ELSE LET transition == GetTransition(table, m.current_state, TapeRead(m.tape))
       IN  IF transition = None
           THEN [tm |-> m, outcome |-> "halt"]
           ELSE LET written == TapeWrite(m.tape, transition[2])
                IN  IF transition[3] \notin {"L", "R"}
                    THEN [tm |-> [m EXCEPT !.tape = written],
                          outcome |-> "ValueError"]
                    ELSE [tm |-> SaveConfiguration(
                                   [m EXCEPT !.tape          = TapeMove(written, transition[3]),
                                             !.current_state = transition[1],
                                             !.step_count    = @ + 1]),
                          outcome |-> "progress"]

\* a classification that accepts whatever did not end in the reject state
GetResultByRejectState(m) ==
  IF m.current_state # "q_reject" THEN "Acepta" ELSE "Rechaza"

\* TuringMachine.get_result
GetResult(m) == IF m.current_state \in m.accept_states THEN "Acepta" ELSE "Rechaza"

\* the loop of run stopping one step short of the budget
RECURSIVE RunLoopOneShort(_, _, _, _)
RunLoopOneShort(table, m, max_steps, calls) ==
  IF m.step_count < max_steps - 1
  THEN LET r == StepMachine(table, m)
       IN  IF r.outcome = "progress"
           THEN RunLoopOneShort(table, r.tm, max_steps, calls + 1)
           ELSE [tm |-> r.tm, calls |-> calls + 1, outcome |-> r.outcome]
  ELSE [tm |-> m, calls |-> calls, outcome |-> "halt"]

\* the loop of run with the budget test off by one (<= for <)
RECURSIVE RunLoopOffByOne(_, _, _, _)
RunLoopOffByOne(table, m, max_steps, calls) ==
  IF m.step_count <= max_steps
  THEN LET r == StepMachine(table, m)
       IN  IF r.outcome = "progress"
           THEN RunLoopOffByOne(table, r.tm, max_steps, calls + 1)
           ELSE [tm |-> r.tm, calls |-> calls + 1, outcome |-> r.outcome]
  ELSE [tm |-> m, calls |-> calls, outcome |-> "halt"]

\* TuringMachine.run after its reset: the while loop, with the number of
\* step() calls made so far; the machine and the calls when the loop ends
RECURSIVE RunLoop(_, _, _, _)
RunLoop(table, m, max_steps, calls) ==
  IF m.step_count < max_steps
  THEN LET r == StepMachine(table, m)
       IN  IF r.outcome = "progress"
           THEN RunLoop(table, r.tm, max_steps, calls + 1)
           ELSE [tm |-> r.tm, calls |-> calls + 1, outcome |-> r.outcome]
  ELSE [tm |-> m, calls |-> calls, outcome |-> "halt"]

\* TuringMachine.run: reset, then the loop; the machine when run returns or
\* raises, the number of step() calls made, and "halt" (the loop ended) or
\* the exception raised
RunMachine(table, m, input_string, max_steps) ==
  LET r == ResetMachine(m, input_string)
  IN  IF r.outcome = "ok"
      THEN RunLoop(table, r.tm, max_steps, 0)
      ELSE [tm |-> r.tm, calls |-> 0, outcome |-> r.outcome]

(***************************************************************************)
(* create_balanced_01_machine                                              *)
(***************************************************************************)
\* the sixteen add_transition calls, in the order of the source
BalancedAdds ==
  << <<"q0", "0", "q1", "X", "R">>,
     <<"q0", "Y", "q0", "Y", "R">>,
     <<"q0", "_", "q4", "_", "L">>,
     <<"q1", "0", "q1", "0", "R">>,
     <<"q1", "1", "q2", "Y", "L">>,
     <<"q1", "Y", "q1", "Y", "R">>,
     <<"q1", "_", "q_reject", "_", "R">>,
     <<"q2", "0", "q2", "0", "L">>,
     <<"q2", "Y", "q2", "Y", "L">>,
     <<"q2", "X", "q2", "X", "L">>,
     <<"q2", "_", "q0", "_", "R">>,
     <<"q4", "X", "q4", "X", "L">>,
     <<"q4", "Y", "q4", "Y", "L">>,
     <<"q4", "_", "q_accept", "_", "R">>,
     <<"q4", "0", "q_reject", "0", "R">>,
     <<"q4", "1", "q_reject", "1", "R">> >>

\* the table after the first n calls of BalancedAdds
RECURSIVE AddAll(_, _)
AddAll(adds, n) ==
  IF n = 0
  THEN EmptyTransitions
  ELSE PutTransition(AddAll(adds, n - 1), adds[n][1], adds[n][2], adds[n][3],
                     adds[n][4], adds[n][5])

BalancedTransitions == AddAll(BalancedAdds, Len(BalancedAdds))

\* the definition handed to TuringMachine(...) by create_balanced_01_machine
BalancedDefinition ==
  [states         |-> {"q0", "q1", "q2", "q3", "q4", "q_accept", "q_reject"},
   input_alphabet |-> {"0", "1"},
   tape_alphabet  |-> {"0", "1", "X", "Y", "_"},
   initial_state  |-> "q0",
   blank_symbol   |-> "_",
   accept_states  |-> {"q_accept"}]

\* the strings of test_cases in interactive_menu
TestCases ==
  { <<>>,
    <<"0", "1">>,
    <<"0", "0", "1", "1">>,
    <<"0", "0", "1">>,
    <<"1", "1", "0", "0">>,
    <<"0", "1", "0", "1">>,
    <<"0", "0", "0", "1", "1", "1">> }

(***************************************************************************)
(* The inputs of the calls.                                                *)
(***************************************************************************)
\* the strings handed to reset and run: the strings of 0s of length at most
\* MaxLen, and those of them whose last character is a 1 instead ("1" is
\* outside the input alphabet of the machines of Definitions and inside
\* that of the built-in machine)
InputStrings ==
  LET zeros == UNION {[1..n -> {"0"}] : n \in 0..MaxLen}
  IN  zeros \cup {[z EXCEPT ![Len(z)] = "1"] : z \in zeros \ {<<>>}}

\* the max_steps handed to run
Budgets == -1..MaxBudget

\* the arguments of add_transition: the rules of the working state q0 over
\* the symbols 0 and blank, a rule into a state outside the state set, a
\* rule leaving the accept state, and the direction "S" that add_transition
\* refuses
AddArgs ==
  ({"q0"} \X {"0"} \X {"q0", "q_accept"} \X {"X", "_"} \X {"L", "R"})
    \cup ({"q0"} \X {"_"} \X {"q0", "q_accept"} \X {"X"} \X {"L", "R"})
    \cup {<<"q0", "0", "qz", "0", "R">>,
          <<"q_accept", "_", "q0", "X", "R">>,
          <<"q0", "0", "q0", "X", "S">>,
          <<"q_accept", "_", "q0", "X", "S">>}

\* the definitions handed to TuringMachine(...): well-formed ones (the start
\* state accepting or not) and one that breaks each check of __init__
Definitions ==
  LET good == [states         |-> {"q0", "q_accept"},
               input_alphabet |-> {"0"},
               tape_alphabet  |-> {"0", "X", "_"},
               initial_state  |-> "q0",
               blank_symbol   |-> "_",
               accept_states  |-> {"q_accept"}]
  IN  { good,
        [good EXCEPT !.accept_states = {"q0", "q_accept"}],
        [good EXCEPT !.initial_state = "qz"],
        [good EXCEPT !.accept_states = {"q_accept", "qz"}],
        [good EXCEPT !.input_alphabet = {"0", "1"}],
        [good EXCEPT !.blank_symbol = "B"] }

Done(op, outcome) == [op |-> op, outcome |-> outcome, max_steps |-> 0, calls |-> 0]

(***************************************************************************)
(* The state machine.                                                      *)
(***************************************************************************)
Init ==
  /\ transitions = EmptyTransitions
  /\ tm = None
  /\ run_input = <<>>
  /\ last = Done("none", "ok")

\* an add_transition that stores the entry whatever the direction
AddTransitionUnchecked(a) ==
  /\ tm = None
  /\ transitions' = PutTransition(transitions, a[1], a[2], a[3], a[4], a[5])
  /\ last' = Done("add_transition", "ok")
  /\ UNCHANGED <<tm, run_input>>

\* tf.add_transition(...) on the table under construction
AddTransition(a) ==
  /\ tm = None
  /\ IF a[5] \notin {"L", "R"}
     THEN /\ last' = Done("add_transition", "ValueError")
          /\ UNCHANGED transitions
     ELSE /\ transitions' = PutTransition(transitions, a[1], a[2], a[3], a[4], a[5])
          /\ last' = Done("add_transition", "ok")
  /\ UNCHANGED <<tm, run_input>>

\* TuringMachine(...) over the table built so far
Construct(d) ==
  /\ tm = None
  /\ IF ValidDefinition(d)
     THEN /\ tm' = NewMachine(d)
          /\ last' = Done("construct", "ok")
     ELSE /\ last' = Done("construct", "ValueError")
          /\ UNCHANGED tm
  /\ UNCHANGED <<transitions, run_input>>

\* create_balanced_01_machine()
CreateBalanced ==
  /\ tm = None
  /\ transitions = EmptyTransitions
  /\ transitions' = BalancedTransitions
  /\ tm' = NewMachine(BalancedDefinition)
  /\ last' = Done("create_balanced_01_machine", "ok")
  /\ UNCHANGED run_input

\* tm.reset(input_string)
Reset(input_string) ==
  /\ tm # None
  /\ LET r == ResetMachine(tm, input_string)
     IN  /\ tm' = r.tm
         /\ run_input' = IF r.outcome = "ok" THEN input_string ELSE run_input
         /\ last' = Done("reset", r.outcome)
  /\ UNCHANGED transitions

\* tm.step()
Step ==
  /\ tm # None
  /\ LET r == StepMachine(transitions, tm)
     IN  /\ r.outcome = "progress" => tm.step_count < MaxSteps
         /\ tm' = r.tm
         /\ last' = Done("step", r.outcome)
  /\ UNCHANGED <<transitions, run_input>>

\* the effect of tm.run(input_string, max_steps)
RunWith(input_string, max_steps) ==
  /\ LET r == RunMachine(transitions, tm, input_string, max_steps)
     IN  /\ tm' = r.tm
         /\ run_input' = IF r.outcome = "ValueError" THEN run_input ELSE input_string
         /\ last' = [op |-> "run", outcome |-> r.outcome,
                     max_steps |-> IF r.outcome = "ValueError" THEN 0 ELSE max_steps,
                     calls |-> r.calls]
  /\ UNCHANGED transitions

\* tm.run(input_string, max_steps) with an explicit budget
Run(input_string, max_steps) ==
  /\ tm # None
  /\ RunWith(input_string, max_steps)

\* tm.run(test_input) of interactive_menu: the built-in machine under the
\* default budget
RunDefault(input_string) ==
  /\ tm # None
  /\ transitions = BalancedTransitions
  /\ RunWith(input_string, DefaultMaxSteps)

\* tm.get_result(): the call returns the classification; it has no check
\* and no raise
QueryResult ==
  /\ tm # None
  /\ last' = Done("get_result", GetResult(tm))
  /\ UNCHANGED <<transitions, tm, run_input>>

Next ==
  \/ \E a \in AddArgs : AddTransition(a)
  \/ \E d \in Definitions : Construct(d)
  \/ CreateBalanced
  \/ \E s \in InputStrings : Reset(s)
  \/ Step
  \/ \E s \in InputStrings, n \in Budgets : Run(s, n)
  \/ \E s \in InputStrings \cup TestCases : RunDefault(s)
  \/ QueryResult

Spec == Init /\ [][Next]_vars

(***************************************************************************)
(* run, one loop iteration at a time: a machine is built and run once,     *)
(* with run split into its reset and the iterations of its while loop.     *)
(* The interpreter is single-threaded and the loop does not wait for       *)
(* anything (step_by_step is False), so an iteration that can be taken is  *)
(* taken: weak fairness of RunIterate.                                     *)
(***************************************************************************)
\* one iteration with the budget test off by one (<= for <)
RunIterationOffByOne(table, m, max_steps) ==
  IF m.step_count <= max_steps
  THEN LET r == StepMachine(table, m)
       IN  [tm      |-> r.tm,
            outcome |-> IF r.outcome = "progress" THEN "running" ELSE r.outcome,
            called  |-> 1]
  ELSE [tm |-> m, outcome |-> "halt", called |-> 0]

\* one evaluation of the while test of run and, when it holds, of the loop
\* body: the machine, "running" when the loop goes on or "halt" when it has
\* ended, and the number of step() calls made (0 or 1)
RunIteration(table, m, max_steps) ==
  IF m.step_count < max_steps
  THEN LET r == StepMachine(table, m)
       IN  [tm      |-> r.tm,
            outcome |-> IF r.outcome = "progress" THEN "running" ELSE r.outcome,
            called  |-> 1]
  ELSE [tm |-> m, outcome |-> "halt", called |-> 0]

\* the first tm.run(input_string, max_steps) of a machine, up to its loop:
\* the reset; the default budget is given to the built-in machine only
RunBegin(input_string, max_steps) ==
  /\ tm # None
  /\ last.op # "run"
  /\ max_steps = DefaultMaxSteps => transitions = BalancedTransitions
  /\ LET r == ResetMachine(tm, input_string)
     IN  /\ tm' = r.tm
         /\ run_input' = IF r.outcome = "ok" THEN input_string ELSE run_input
         /\ last' = IF r.outcome = "ok"
                    THEN [op |-> "run", outcome |-> "running",
                          max_steps |-> max_steps, calls |-> 0]
                    ELSE Done("run", r.outcome)
  /\ UNCHANGED transitions

\* one iteration of the loop of the run in progress
RunIterate ==
  /\ last.op = "run"
  /\ last.outcome = "running"
  /\ LET it == RunIteration(transitions, tm, last.max_steps)
     IN  /\ tm' = it.tm
         /\ last' = [last EXCEPT !.outcome = it.outcome, !.calls = @ + it.called]
  /\ UNCHANGED <<transitions, run_input>>

LoopNext ==
  \/ \E a \in AddArgs : AddTransition(a)
  \/ \E d \in Definitions : Construct(d)
  \/ CreateBalanced
  \/ \E s \in InputStrings \cup TestCases, n \in Budgets \cup {DefaultMaxSteps} :
       RunBegin(s, n)
  \/ RunIterate

\* a run is in its loop
Running == last.op = "run" /\ last.outcome = "running"

\* WF_vars(RunIterate) written out: an iteration changes last, so
\* ENABLED <<RunIterate>>_vars is Running
LoopFairness == []<>(~Running) \/ []<><<RunIterate>>_vars

LoopSpec == Init /\ [][LoopNext]_vars /\ LoopFairness

(***************************************************************************)
(* The machine as the formal definition reads it: a configuration is a     *)
(* state, a head position and the cells written so far; one transition     *)
(* rewrites the cell under the head, moves the head and changes the state. *)
(***************************************************************************)
\* the initial configuration (q0, head 0, tape = s)
InitialConfiguration(m, s) ==
  [state |-> m.initial_state,
   head  |-> 0,
   cells |-> [i \in 0..(Len(s) - 1) |-> s[i + 1]]]

\* the symbol under the head of a configuration
Scanned(m, c) == IF c.head \in DOMAIN c.cells THEN c.cells[c.head] ELSE m.blank_symbol

\* a transition of the table applies to the configuration
Applicable(table, m, c) == <<c.state, Scanned(m, c)>> \in DOMAIN table

\* the configuration one transition later
Successor(table, m, c) ==
  LET t == table[<<c.state, Scanned(m, c)>>]
  IN  [state |-> t[1],
       head  |-> IF t[3] = "L" THEN c.head - 1 ELSE c.head + 1,
       cells |-> [i \in (DOMAIN c.cells) \cup {c.head} |->
                    IF i = c.head THEN t[2] ELSE c.cells[i]]]

\* an accept state is reached from c within at most n transitions
RECURSIVE ReachesAccept(_, _, _, _)
ReachesAccept(table, m, c, n) ==
  IF c.state \in m.accept_states
  THEN TRUE
  ELSE IF n <= 0 \/ ~Applicable(table, m, c)
  THEN FALSE
  ELSE ReachesAccept(table, m, Successor(table, m, c), n - 1)

\* c and the n configurations after it are all non-accepting with a
\* transition that applies: no halting configuration within n transitions
RECURSIVE NoHaltWithin(_, _, _, _)
NoHaltWithin(table, m, c, n) ==
  /\ c.state \notin m.accept_states
  /\ Applicable(table, m, c)
  /\ n > 0 => NoHaltWithin(table, m, Successor(table, m, c), n - 1)

\* run returned (its reset did not raise)
RunReturned == tm # None /\ last.op = "run" /\ last.outcome = "halt"

\* a step() call has just been made on a machine that has a tape
SteppedFrom(m) == m # None /\ m.tape # None

\* C1: for every max_steps N >= 0, run(s, N) ends classified "Acepta"
\* (accepted) exactly when an accept state is reached within at most N
\* transitions from the initial configuration (q0, head 0, tape s), and
\* "Rechaza" (rejected) in every other case.
C1_RunClassification ==
  (RunReturned /\ last.max_steps >= 0) =>
    GetResult(tm) =
      IF ReachesAccept(transitions, tm, InitialConfiguration(tm, run_input),
                       last.max_steps)
      THEN "Acepta"
      ELSE "Rechaza"

\* a run that accepts with its last allowed transition
C1_Witness ==
  /\ RunReturned
  /\ last.max_steps = 2
  /\ tm.step_count = 2
  /\ GetResult(tm) = "Acepta"

\* C2: a step() taken while the current state is an accept state reports no
\* progress and leaves the whole run state (current state, tape, head,
\* bounds, step counter, history) unchanged, whatever the table holds for
\* (current state, symbol under the head).
C2_AcceptancePriority ==
  [][(last'.op = "step" /\ SteppedFrom(tm)
        /\ tm.current_state \in tm.accept_states)
       => (last'.outcome = "halt" /\ tm' = tm)]_vars

\* a step() that halted in an accept state for which the table holds an
\* entry under the head
C2_Witness ==
  /\ SteppedFrom(tm)
  /\ last.op = "step"
  /\ last.outcome = "halt"
  /\ tm.current_state \in tm.accept_states
  /\ <<tm.current_state, TapeRead(tm.tape)>> \in DOMAIN transitions

\* C3: a step() taken in a non-accept state for which the table has no
\* entry under the head reports no progress and leaves the whole run state
\* unchanged.
C3_AbsentTransitionHalts ==
  [][(last'.op = "step" /\ SteppedFrom(tm)
        /\ tm.current_state \notin tm.accept_states
        /\ <<tm.current_state, TapeRead(tm.tape)>> \notin DOMAIN transitions)
       => (last'.outcome = "halt" /\ tm' = tm)]_vars

\* a step() that halted by deadlock after at least one transition
C3_Witness ==
  /\ SteppedFrom(tm)
  /\ last.op = "step"
  /\ last.outcome = "halt"
  /\ tm.current_state \notin tm.accept_states
  /\ <<tm.current_state, TapeRead(tm.tape)>> \notin DOMAIN transitions
  /\ tm.step_count > 0

\* C4: when no halting configuration is met within N transitions of the
\* initial configuration (as for a machine that never halts), run(s, N)
\* with N >= 0 makes exactly N step() calls, ends with step counter N and
\* is classified "Rechaza".
C4_MaxStepsEnforced ==
  (RunReturned /\ last.max_steps >= 0
     /\ NoHaltWithin(transitions, tm, InitialConfiguration(tm, run_input),
                     last.max_steps)) =>
    /\ last.calls = last.max_steps
    /\ tm.step_count = last.max_steps
    /\ GetResult(tm) = "Rechaza"

\* run on a machine that only ever moves right in q0, stopped by the budget
C4_Witness ==
  /\ RunReturned
  /\ <<"q0", "0">> \in DOMAIN transitions
  /\ <<"q0", "_">> \in DOMAIN transitions
  /\ transitions[<<"q0", "0">>] = <<"q0", "X", "R">>
  /\ transitions[<<"q0", "_">>] = <<"q0", "X", "R">>
  /\ tm.accept_states = {"q_accept"}
  /\ run_input = <<"0">>
  /\ last.max_steps = 2
  /\ last.calls = 2

\* some character of s is outside the input alphabet of m
HasInvalidSymbol(m, s) == \E i \in 1..Len(s) : s[i] \notin m.input_alphabet

\* C5: reset(s) and run(s, N) with a character of s outside the input
\* alphabet raise (ValueError) from every reachable state, and a reset or
\* run that raised has left the machine exactly as it was: no tape
\* allocated, current state, tape, head, bounds, step counter and history
\* as before the call.
C5_FailedResetAtomic ==
  /\ [](tm # None =>
          \A s \in InputStrings \cup TestCases :
            HasInvalidSymbol(tm, s) =>
              /\ ResetMachine(tm, s) = [tm |-> tm, outcome |-> "ValueError"]
              /\ \A n \in Budgets \cup {DefaultMaxSteps} :
                   RunMachine(transitions, tm, s, n) =
                     [tm |-> tm, calls |-> 0, outcome |-> "ValueError"])
  /\ [][(last'.op \in {"reset", "run"} /\ last'.outcome = "ValueError")
          => tm' = tm]_vars

\* a reset that raised on a machine in the middle of a run
C5_Witness ==
  /\ tm # None
  /\ last.op = "reset"
  /\ last.outcome = "ValueError"
  /\ tm.tape # None
  /\ tm.step_count > 0
  /\ Len(tm.execution_history) = tm.step_count + 1

\* the rendering of the tape that holds s from position 0 and blanks
\* elsewhere, with the head on position 0
InitialSnapshot(m, s) ==
  [tape_content   |-> [j \in 1..(Max(Len(s) - 1, DefaultContext) + DefaultContext + 1) |->
                         IF j - DefaultContext \in 1..Len(s)
                         THEN s[j - DefaultContext]
                         ELSE m.blank_symbol],
   head_indicator |-> DefaultContext]

\* C6: after a successful reset(s), whatever came before: the tape holds
\* s[i] at position i for 0 <= i < len(s) and blank everywhere else,
\* head = 0, leftmost = 0, rightmost = max(0, len(s) - 1), the current state
\* is the initial state, the step counter is 0 and the history is exactly
\* the one entry of the initial configuration.
C6_ResetState ==
  (tm # None /\ last.op = "reset" /\ last.outcome = "ok") =>
    /\ DOMAIN tm.tape.tape \subseteq 0..(Len(run_input) - 1)
    /\ \A i \in -(MaxSteps + 1)..(MaxLen + MaxSteps + 1) :
         Cell(tm.tape, i) = IF i \in 0..(Len(run_input) - 1)
                            THEN run_input[i + 1]
                            ELSE tm.blank_symbol
    /\ tm.tape.head_position = 0
    /\ tm.tape.leftmost = 0
    /\ tm.tape.rightmost = Max(0, Len(run_input) - 1)
    /\ tm.current_state = tm.initial_state
    /\ tm.step_count = 0
    /\ tm.execution_history =
         << <<tm.initial_state, 0, InitialSnapshot(tm, run_input)>> >>

\* a successful reset to a two-symbol input
C6_Witness ==
  /\ tm # None
  /\ last.op = "reset"
  /\ last.outcome = "ok"
  /\ Len(run_input) = 2

\* C7: when reset(s) followed by k step() calls has brought the machine to
\* an accept state, a single run(s, N) with any budget N >= k, started from
\* this machine or from a newly constructed one, ends in the identical
\* machine: the same final state, tape, step counter and history.
C7_RunEqualsResetThenSteps ==
  (tm # None /\ last.op \in {"reset", "step"} /\ tm.tape # None
     /\ tm.current_state \in tm.accept_states) =>
    \A n \in {tm.step_count, tm.step_count + 1, DefaultMaxSteps} :
      /\ RunMachine(transitions, tm, run_input, n).tm = tm
      /\ RunMachine(transitions, NewMachine(tm), run_input, n).tm = tm

\* an accept state reached by the second of two step() calls
C7_Witness ==
  /\ tm # None
  /\ last.op = "step"
  /\ last.outcome = "progress"
  /\ tm.current_state \in tm.accept_states
  /\ tm.step_count = 2

\* the machine is the one create_balanced_01_machine returns
BuiltIn ==
  /\ tm # None
  /\ transitions = BalancedTransitions
  /\ tm.states = BalancedDefinition.states

\* run(input) has returned on the built-in machine under the default budget
BuiltInRan(input) ==
  /\ BuiltIn
  /\ RunReturned
  /\ last.max_steps = DefaultMaxSteps
  /\ run_input = input

\* C8: the built-in machine, run with the default budget, classifies each
\* of "01", "0011" and "000111" as accepted.
C8_BalancedAccepted ==
  \A input \in {<<"0", "1">>,
                <<"0", "0", "1", "1">>,
                <<"0", "0", "0", "1", "1", "1">>} :
    BuiltInRan(input) => GetResult(tm) = "Acepta"

\* C9: the built-in machine, run with the default budget, classifies "001"
\* and "1100" as rejected.
C9_BalancedRejected ==
  \A input \in {<<"0", "0", "1">>, <<"1", "1", "0", "0">>} :
    BuiltInRan(input) => GetResult(tm) = "Rechaza"

\* the run on "001" has returned
C9_Witness == BuiltInRan(<<"0", "0", "1">>) /\ tm.step_count > 0

\* the state and head position of every history entry, in order
StatesAndHeads(m) ==
  [i \in 1..Len(m.execution_history) |->
     <<m.execution_history[i][1], m.execution_history[i][2]>>]

\* C10: on the empty input the built-in machine, given a budget of at least
\* two steps (the default included), reads the blank under the head at
\* position 0 in q0, moves left to position -1, then enters q_accept and
\* halts there; the run is classified accepted.
C10_EmptyInputAccepted ==
  (BuiltIn /\ RunReturned /\ run_input = <<>> /\ last.max_steps >= 2) =>
    /\ GetResult(tm) = "Acepta"
    /\ StatesAndHeads(tm) = << <<"q0", 0>>, <<"q4", -1>>, <<"q_accept", 0>> >>
    /\ LET first == tm.execution_history[1][3]
       IN  first.tape_content[first.head_indicator + 1] = tm.blank_symbol
    /\ tm.current_state = "q_accept"
    /\ StepMachine(transitions, tm) = [tm |-> tm, outcome |-> "halt"]

\* the run on the empty input has returned under the default budget
C10_Witness == BuiltInRan(<<>>) /\ tm.step_count = 2

\* C11: get_result() on a machine on which reset has never succeeded (no
\* tape exists) is an error: it raises and returns no classification.
C11_QueryBeforeResetRaises ==
  (tm # None /\ tm.tape = None /\ last.op = "get_result") =>
    last.outcome \notin {"Acepta", "Rechaza"}

\* C12: a step() on a machine that has no tape (no reset has succeeded)
\* raises RuntimeError, whether or not the current state is accepting and
\* whatever the table holds, and changes nothing: the machine stays as
\* constructed (initial state, no tape, step counter 0, empty history).
C12_StepBeforeResetRaises ==
  [][(last'.op = "step" /\ tm # None /\ tm.tape = None)
       => /\ last'.outcome = "RuntimeError"
          /\ tm' = tm
          /\ tm' = NewMachine(tm)]_vars

\* a step() that raised on a never-reset machine whose initial state is
\* accepting and whose table has a rule for (initial state, blank)
C12_Witness ==
  /\ tm # None
  /\ tm.tape = None
  /\ last.op = "step"
  /\ last.outcome = "RuntimeError"
  /\ tm.current_state \in tm.accept_states
  /\ <<tm.current_state, tm.blank_symbol>> \in DOMAIN transitions

\* the definition breaks one of the four well-formedness conditions
IllFormed(d) ==
  \/ d.initial_state \notin d.states
  \/ \E q \in d.accept_states : q \notin d.states
  \/ \E a \in d.input_alphabet : a \notin d.tape_alphabet
  \/ d.blank_symbol \notin d.tape_alphabet

\* C13: TuringMachine(d) raises (ValueError) and leaves no machine when the
\* initial state is outside the state set, or an accept state is, or an
\* input symbol is outside the tape alphabet, or the blank symbol is; in
\* every other case it succeeds with the fields of d, current state = the
\* initial state, no tape, step counter 0 and an empty history.
C13_ConstructionValidated ==
  [][\A d \in Definitions \cup {BalancedDefinition} :
       Construct(d) =>
         IF IllFormed(d)
         THEN last'.outcome = "ValueError" /\ tm' = None
         ELSE /\ last'.outcome = "ok"
              /\ tm' = [states            |-> d.states,
                        input_alphabet    |-> d.input_alphabet,
                        tape_alphabet     |-> d.tape_alphabet,
                        initial_state     |-> d.initial_state,
                        blank_symbol      |-> d.blank_symbol,
                        accept_states     |-> d.accept_states,
                        current_state     |-> d.initial_state,
                        tape              |-> None,
                        step_count        |-> 0,
                        execution_history |-> <<>>]]_vars

\* a construction that raised: no machine exists
C13_Witness ==
  /\ last.op = "construct"
  /\ last.outcome = "ValueError"
  /\ tm = None
  /\ transitions # EmptyTransitions

\* C14: in every state of a constructed machine the current state is a
\* member of the state set.
C14_CurrentStateInStates == tm # None => tm.current_state \in tm.states

\* the tape positions a run of the model can have touched, and one more on
\* each side
Window == -(MaxSteps + DefaultContext)..(MaxLen + MaxSteps + DefaultContext)

\* C15: a step() that finds the transition (next, w, d) for (current state,
\* symbol under the head) with the head at p leaves w at p, changes no other
\* cell, moves the head to p + 1 for "R" and p - 1 for "L", makes next the
\* current state, adds exactly 1 to the step counter, appends exactly one
\* entry to the history and returns True.
C15_StepEffect ==
  [][(last'.op = "step" /\ SteppedFrom(tm)
        /\ tm.current_state \notin tm.accept_states
        /\ <<tm.current_state, TapeRead(tm.tape)>> \in DOMAIN transitions)
       => LET t == transitions[<<tm.current_state, TapeRead(tm.tape)>>]
              p == tm.tape.head_position
          IN  /\ last'.outcome = "progress"
              /\ Cell(tm'.tape, p) = t[2]
              /\ \A i \in (Window \cup DOMAIN tm.tape.tape \cup DOMAIN tm'.tape.tape) \ {p} :
                   Cell(tm'.tape, i) = Cell(tm.tape, i)
              /\ t[3] = "R" => tm'.tape.head_position = p + 1
              /\ t[3] = "L" => tm'.tape.head_position = p - 1
              /\ t[3] \in {"L", "R"}
              /\ tm'.current_state = t[1]
              /\ tm'.step_count = tm.step_count + 1
              /\ Len(tm'.execution_history) = Len(tm.execution_history) + 1]_vars

\* a step() that wrote X over a 0 and moved left of position 0
C15_Witness ==
  /\ SteppedFrom(tm)
  /\ last.op = "step"
  /\ last.outcome = "progress"
  /\ tm.step_count = 1
  /\ tm.tape.head_position = -1
  /\ Cell(tm.tape, 0) = "X"
  /\ run_input = <<"0">>

\* C16: run(s, N) terminates for every machine, valid input s and budget N:
\* a run in progress always comes to the end of its loop; every iteration
\* either adds 1 to the step counter or ends the loop; when the loop has
\* ended the step counter is at most max(N, 0) and no more than max(N, 0)
\* step() calls were made; and the machine is the one the run taken as a
\* single call returns.
C16_RunTerminates ==
  /\ Running ~> (last.op = "run" /\ last.outcome = "halt")
  /\ [][RunIterate => \/ tm'.step_count = tm.step_count + 1
                      \/ last'.outcome = "halt"]_vars
  /\ [](RunReturned =>
          /\ tm.step_count <= Max(last.max_steps, 0)
          /\ last.calls <= Max(last.max_steps, 0)
          /\ RunMachine(transitions, tm, run_input, last.max_steps) =
               [tm |-> tm, calls |-> last.calls, outcome |-> "halt"])

\* a run of a machine that can always move, ended by its budget
C16_Witness ==
  /\ RunReturned
  /\ last.max_steps = 2
  /\ tm.step_count = 2
  /\ last.calls = 2
  /\ tm.current_state \notin tm.accept_states
  /\ <<tm.current_state, TapeRead(tm.tape)>> \in DOMAIN transitions

\* a machine on which a reset has succeeded
HasRun == tm # None /\ tm.tape # None

\* C17: after a successful reset and any number of step() calls the history
\* holds step counter + 1 entries, its last entry records the current state
\* and the head position, and a
\* step() only appends: the entries held before it are the same afterwards.
C17_HistoryAppendOnly ==
  /\ [](HasRun =>
          LET h == tm.execution_history
          IN  /\ Len(h) = tm.step_count + 1
              /\ h[Len(h)][1] = tm.current_state
              /\ h[Len(h)][2] = tm.tape.head_position)
  /\ [][(last'.op = "step" /\ HasRun)
          => /\ Len(tm'.execution_history) >= Len(tm.execution_history)
             /\ SubSeq(tm'.execution_history, 1, Len(tm.execution_history)) =
                  tm.execution_history]_vars

\* three step() calls have made progress: four entries
C17_Witness ==
  /\ HasRun
  /\ last.op = "step"
  /\ last.outcome = "progress"
  /\ tm.step_count = 3
  /\ Len(tm.execution_history) = 4

\* the head positions of the configurations of the current run
Visited == {tm.execution_history[i][2] : i \in 1..Len(tm.execution_history)}

\* the least and the greatest member of a non-empty finite set of integers
Least(S) == CHOOSE x \in S : \A y \in S : x <= y

Greatest(S) == CHOOSE x \in S : \A y \in S : x >= y

\* C18: after reset(s) and any steps, leftmost is the minimum and rightmost
\* the maximum over the initial range [0, max(0, len(s) - 1)] and every head
\* position visited so far; hence leftmost <= head <= rightmost; and no
\* step() within the run moves leftmost up or rightmost down.
C18_TapeGrowth ==
  /\ [](HasRun =>
          /\ tm.tape.leftmost = Least(Visited \cup {0})
          /\ tm.tape.rightmost =
               Greatest(Visited \cup {Max(0, Len(run_input) - 1)})
          /\ tm.tape.leftmost <= tm.tape.head_position
          /\ tm.tape.head_position <= tm.tape.rightmost)
  /\ [][(last'.op = "step" /\ HasRun)
          => /\ tm'.tape.leftmost <= tm.tape.leftmost
             /\ tm'.tape.rightmost >= tm.tape.rightmost]_vars

\* a run whose head has been left of position 0 and right of the input
C18_Witness ==
  /\ HasRun
  /\ run_input = <<"0">>
  /\ tm.tape.leftmost = -1
  /\ tm.tape.rightmost = 1
  /\ tm.step_count = 3

\* the configuration the last history entry was taken from is the current one
LastEntryCurrent ==
  LET h == tm.execution_history
  IN  /\ Len(h) = tm.step_count + 1
      /\ h[Len(h)] = <<tm.current_state, tm.tape.head_position,
                       GetTapeString(tm.tape, DefaultContext)>>

\* C19: add_transition with a direction other than 'L'/'R' raises and leaves
\* the table unchanged; every entry of the table has direction 'L' or 'R';
\* no step(), alone or inside run, raises in move(); and a step() either
\* changes nothing of the machine or updates tape, head, state, counter and
\* history together, so the last history entry always shows the current
\* tape, head and state.
C19_StepAtomic ==
  /\ [][\A a \in AddArgs :
          (AddTransition(a) /\ a[5] \notin {"L", "R"})
            => /\ last'.outcome = "ValueError"
               /\ transitions' = transitions]_vars
  /\ [](\A k \in DOMAIN transitions : transitions[k][3] \in {"L", "R"})
  /\ [](~(last.op = "step" /\ last.outcome = "ValueError"))
  /\ [](~(last.op = "run" /\ last.outcome = "ValueError" /\ last.calls > 0))
  /\ [](HasRun => LastEntryCurrent)
  /\ [][(last'.op = "step" /\ HasRun)
          => \/ tm' = tm
             \/ /\ last'.outcome = "progress"
                /\ Cell(tm'.tape, tm.tape.head_position) =
                     transitions[<<tm.current_state, TapeRead(tm.tape)>>][2]
                /\ tm'.tape.head_position # tm.tape.head_position
                /\ tm'.step_count = tm.step_count + 1
                /\ Len(tm'.execution_history) = Len(tm.execution_history) + 1]_vars

\* an add_transition with direction 'S' was refused on a table that already
\* holds an entry
C19_Witness ==
  /\ last.op = "add_transition"
  /\ last.outcome = "ValueError"
  /\ transitions # EmptyTransitions

\* C20: in every state reached by reset and step calls, every tape position
\* strictly outside [leftmost, rightmost] reads the blank symbol.
C20_BlankOutsideBounds ==
  HasRun =>
    \A i \in Window \cup DOMAIN tm.tape.tape :
      (i < tm.tape.leftmost \/ i > tm.tape.rightmost)
        => Cell(tm.tape, i) = tm.blank_symbol

\* a non-blank symbol has been written left of position 0, inside the
\* bounds, and the head has gone on to a blank cell further left
C20_Witness ==
  /\ HasRun
  /\ last.op = "step"
  /\ run_input = <<"0">>
  /\ Cell(tm.tape, -1) # tm.blank_symbol
  /\ tm.tape.head_position = -2
  /\ tm.tape.leftmost = -2
====
